---- MODULE Spec2Model ----
(***************************************************************************)
(* Model of cnp.c (copy-and-patch JIT example): the bit-packed Token and   *)
(* Ast encodings, the hand-built token and node arrays, the stitching of   *)
(* the snippet calls into the code region, the memory-service calls and    *)
(* the invocation of the generated code.                                   *)
(*                                                                         *)
(* Packed C values (uint32_t Ast, uint64_t Token, int) are modelled as the *)
(* set of positions of their 1 bits, so that masks, shifts, casts and sign *)
(* extension are computed bit for bit at their C width.  Addresses and the *)
(* int values of the local slots are integers.                             *)
(***************************************************************************)
EXTENDS Integers, Sequences, FiniteSets, TLC

VARIABLES
  pc,          \* position of main
  tokens,      \* Token tokens[]
  nodes,       \* Ast nodes[]
  out,         \* what printf has written
  base,        \* locals_and_code, the value VirtualAlloc returned (0: NULL)
  k,           \* index of the next store / snippet call of the current phase
  locals,      \* the int slots of the locals region, 'a' at 0
  wild,        \* stores made through a pointer into no region of the program
  code,        \* what has been written into the code region, in write order
  code_p,      \* the write pointer
  codePerm,    \* protection of the code region
  localsPerm,  \* protection of the locals region
  failed,      \* memory-service calls that returned failure
  invoked,     \* number of times code_seg was called
  ip,          \* instruction pointer of the generated code
  vm,          \* the values the generated code carries between snippets
  run,         \* which run of the program this is
  prev,        \* what the previous run of the program produced
  ein,         \* encoder exploration: the constructor input
  enc,         \* encoder exploration: the packed value
  dec,         \* encoder exploration: the decoded fields
  estage       \* encoder exploration: position

mainVars == <<pc, tokens, nodes, out, base, k, locals, wild, code, code_p,
              codePerm, localsPerm, failed, invoked, ip, vm, run, prev>>
encVars == <<ein, enc, dec, estage>>
vars == <<pc, tokens, nodes, out, base, k, locals, wild, code, code_p,
          codePerm, localsPerm, failed, invoked, ip, vm, run, prev,
          ein, enc, dec, estage>>

(***************************************************************************)
(* Bounds of the model.                                                    *)
(***************************************************************************)
\* number of distinct non-NULL addresses VirtualAlloc may return
NumBases == 3
\* number of runs of the program that are compared
MaxRuns == 2
\* small values 0..MaxSmall are tried as payload, index and displacement
MaxSmall == 4

(***************************************************************************)
(* C integers as bit sets.                                                 *)
(***************************************************************************)
Pow2(n) == 2 ^ n

\* the bits of a natural below 2^31
BitsOf(n) == {i \in 0..30 : (n \div Pow2(i)) % 2 = 1}

RECURSIVE NatOf(_)
\* the value of a bit set with no bit above 30
NatOf(S) ==
  IF S = {} THEN 0
  ELSE LET i == CHOOSE j \in S : TRUE IN Pow2(i) + NatOf(S \ {i})

\* x & mask
BitAnd(S, T) == S \cap T
\* x | y
BitOr(S, T) == S \cup T
\* x << n at C width w (the bits shifted out are lost)
ShiftL(S, n, w) == {i + n : i \in S} \cap (0..(w - 1))
\* x >> n of an unsigned value
ShiftR(S, n) == {i - n : i \in {j \in S : j >= n}}
\* (int)x >> n: the cast keeps the low 32 bits, and the shift of a signed int
\* copies the sign bit into the vacated positions
SarInt(S, n) ==
  LET I == S \cap (0..31)
  IN  ShiftR(I, n) \cup (IF 31 \in I THEN (32 - n)..31 ELSE {})
\* (int)x: the low 32 bits, read as two's complement
CastInt(S) == S \cap (0..31)
\* the value of an int that is not negative and below 2^31
IntIsNat(S) == 31 \notin S
\* the mask 2^w - 1
Mask(w) == 0..(w - 1)

(***************************************************************************)
(* Token: kinds, constructors and the decoding of main's print loop.       *)
(***************************************************************************)
TK_INVALID == 0
TK_EQ == 1
TK_IDENT == 2
TK_CONST == 3
TK_PLUS == 4
TK_TIMES == 5
TK_LPAREN == 6
TK_RPAREN == 7
TK_EOF == 8
TK_Count == 9

token_names ==
  <<"INVALID", "EQ", "IDENT", "CONST", "PLUS", "TIMES", "LPAREN", "RPAREN", "EOF">>

\* the character code of name[0]
CharCode(c) ==
  CASE c = "a" -> 97 [] c = "b" -> 98 [] c = "c" -> 99 [] c = "d" -> 100
    [] c = "e" -> 101 [] c = "f" -> 102 [] c = "g" -> 103

\* VAR(name): (((uintptr_t)name[0]) << 8) | TK_IDENT
VAR(name) == BitOr(ShiftL(BitsOf(CharCode(name)), 8, 64), BitsOf(TK_IDENT))
\* TOK(t): (Token){TK_t}
TOK(t) == BitsOf(t)
\* CONST(v): v << 8 | TK_CONST, v a 64-bit unsigned value given by its bits
\* (for an int literal below 2^23, as in main, the int shift gives the same)
CONST(v) == BitOr(ShiftL(v, 8, 64), BitsOf(TK_CONST))

\* tokens[i] & 0xff
TokenKindOf(t) == NatOf(BitAnd(t, Mask(8)))
\* (int)(tokens[i] >> 8)
TokenPayload(t) == CastInt(ShiftR(t, 8))

(***************************************************************************)
(* Ast: kinds, constructors and the decoding of main's print loop.         *)
(***************************************************************************)
AST_INVALID == 0
AST_ASSIGN == 1
AST_ADD == 2
AST_MUL == 3
AST_NAME == 4
AST_CONST == 5
AST_Count == 6

ast_names == <<"INVALID", "ASSIGN", "ADD", "MUL", "NAME", "CONST">>

\* UNARYOP(k, val): (((uint32_t)(val & 0xffffff)) << 8) | ((uint32_t)AST_k)
UNARYOP(kind, val) ==
  BitOr(ShiftL(BitAnd(val, Mask(24)), 8, 32), BitsOf(kind))
\* UNARYOP_LVAL(k, val): as UNARYOP, with | 0x80
UNARYOP_LVAL(kind, val) ==
  BitOr(BitOr(ShiftL(BitAnd(val, Mask(24)), 8, 32), {7}), BitsOf(kind))
\* BINOP(k, lhs_displ): (((uint32_t)(lhs_displ & 0xfff)) << 20) | ((uint32_t)AST_k)
BINOP(kind, lhs_displ) ==
  BitOr(ShiftL(BitAnd(lhs_displ, Mask(12)), 20, 32), BitsOf(kind))

\* nodes[i] & 0x7f
AstKindOf(n) == NatOf(BitAnd(n, Mask(7)))
\* (bool)(nodes[i] & 0x80)
AstLval(n) == BitAnd(n, {7}) # {}
\* (int)nodes[i] >> 8
AstIndex(n) == SarInt(n, 8)
\* the displacement field BINOP fills: bits 20..31
AstDispl(n) == ShiftR(n, 20)

(***************************************************************************)
(* main: the hand-built arrays.                                            *)
(***************************************************************************)
\* Token tokens[] = {...}
TokensArray ==
  << VAR("a"), TOK(TK_EQ), TOK(TK_LPAREN), VAR("b"), TOK(TK_PLUS), VAR("c"),
     TOK(TK_PLUS), VAR("f"), TOK(TK_TIMES), VAR("g"), TOK(TK_RPAREN),
     TOK(TK_TIMES), TOK(TK_LPAREN), VAR("d"), TOK(TK_PLUS), CONST(BitsOf(3)),
     TOK(TK_RPAREN), TOK(TK_EOF) >>

\* the nodes with displacement 3 in place of 4 in the ADD at index 7
NodesArray_WrongDispl ==
  << UNARYOP_LVAL(AST_NAME, BitsOf(0)),
     UNARYOP(AST_NAME, BitsOf(3)),
     UNARYOP(AST_NAME, BitsOf(5)),
     BINOP(AST_ADD, BitsOf(2)),
     UNARYOP(AST_NAME, BitsOf(7)),
     UNARYOP(AST_NAME, BitsOf(9)),
     BINOP(AST_MUL, BitsOf(2)),
     BINOP(AST_ADD, BitsOf(3)),
     UNARYOP(AST_NAME, BitsOf(13)),
     UNARYOP(AST_CONST, BitsOf(15)),
     BINOP(AST_ADD, BitsOf(2)),
     BINOP(AST_MUL, BitsOf(4)),
     BINOP(AST_ASSIGN, BitsOf(12)) >>

\* Ast nodes[] = {...}
NodesArray ==
  << UNARYOP_LVAL(AST_NAME, BitsOf(0)),
     UNARYOP(AST_NAME, BitsOf(3)),
     UNARYOP(AST_NAME, BitsOf(5)),
     BINOP(AST_ADD, BitsOf(2)),
     UNARYOP(AST_NAME, BitsOf(7)),
     UNARYOP(AST_NAME, BitsOf(9)),
     BINOP(AST_MUL, BitsOf(2)),
     BINOP(AST_ADD, BitsOf(4)),
     UNARYOP(AST_NAME, BitsOf(13)),
     UNARYOP(AST_CONST, BitsOf(15)),
     BINOP(AST_ADD, BitsOf(2)),
     BINOP(AST_MUL, BitsOf(4)),
     BINOP(AST_ASSIGN, BitsOf(12)) >>

\* one line of the "tokens:" listing; C index i is position i + 1
TokenLine(toks, i) ==
  LET kind == TokenKindOf(toks[i + 1])
  IN  [line |-> i,
       name |-> token_names[kind + 1],
       arg  |-> IF kind = TK_IDENT \/ kind = TK_CONST
                THEN TokenPayload(toks[i + 1]) ELSE {}]

\* one line of the "ast:" listing
AstLine(toks, nds, i) ==
  LET kind == AstKindOf(nds[i + 1])
  IN  [line |-> i,
       name |-> ast_names[kind + 1],
       lval |-> AstLval(nds[i + 1]),
       arg  |-> IF kind = AST_NAME \/ kind = AST_CONST
                THEN TokenPayload(toks[NatOf(AstIndex(nds[i + 1])) + 1]) ELSE {}]

(***************************************************************************)
(* main: the memory regions and the local slots.                           *)
(***************************************************************************)
\* 64 << 10: the size of the code region and of the locals region
RegionSize == 65536
\* sizeof(int)
IntSize == 4
\* 0x1111, the value 'a' starts with
UninitA == 4369

Names == {"a", "b", "c", "d", "e", "f", "g"}
Slots == {CharCode(c) - CharCode("a") : c \in Names}

\* the values VirtualAlloc(NULL, 128 << 10, ...) may return: NULL, or the
\* address of a fresh region (regions start on 64K boundaries)
AllocResults == {0} \cup {j * 2 * RegionSize : j \in 1..NumBases}

\* code_seg = locals_and_code
CodeSeg(b) == b
\* locals = (int*)(locals_and_code + (64 << 10))
LocalsPtr(b) == b + RegionSize
\* the address computed without the scaling by sizeof(int)
BYTE_OFFSET_OF_LOCAL_Unscaled(name, b) ==
  LocalsPtr(b) + (CharCode(name) - CharCode("a"))

\* BYTE_OFFSET_OF_LOCAL(name): (uintptr_t)&locals[name[0] - 'a']
BYTE_OFFSET_OF_LOCAL(name, b) ==
  LocalsPtr(b) + IntSize * (CharCode(name) - CharCode("a"))

\* the stores *(int*)BYTE_OFFSET_OF_LOCAL(..) = .., in program order
LocalInits ==
  << <<"a", UninitA>>, <<"b", 2>>, <<"c", 3>>, <<"d", 4>>, <<"e", 0>>,
     <<"f", 6>>, <<"g", 7>>  >>

InCode(addr, b) == b # 0 /\ addr >= CodeSeg(b) /\ addr < CodeSeg(b) + RegionSize
InLocals(addr, b) == b # 0 /\ addr >= LocalsPtr(b) /\ addr < LocalsPtr(b) + RegionSize
SlotOf(addr, b) == (addr - LocalsPtr(b)) \div IntSize
IsSlot(addr, b) ==
  InLocals(addr, b) /\ (addr - LocalsPtr(b)) % IntSize = 0 /\ SlotOf(addr, b) \in Slots

Writable(perm) == perm \in {"RWX", "RW"}
Readable(perm) == perm \in {"RWX", "RW", "RX"}
Executable(perm) == perm \in {"RWX", "RX"}

\* What a store of an int through addr can do.  Inside the two regions the
\* protection decides; a pointer into neither region is undefined behaviour:
\* the store faults ("av") or lands in memory that is not the program's ("wild").
StoreOutcomes(addr, b, cperm, lperm) ==
  IF IsSlot(addr, b) THEN (IF Writable(lperm) THEN {"slot"} ELSE {"av"})
  ELSE IF InLocals(addr, b) THEN (IF Writable(lperm) THEN {"wild"} ELSE {"av"})
  ELSE IF InCode(addr, b) THEN (IF Writable(cperm) THEN {"wild"} ELSE {"av"})
  ELSE IF addr < RegionSize THEN {"av"}
  ELSE {"av", "wild"}

\* What a load of an int through addr gives: "av", or the value read
\* (memory of the locals region that no store touched reads 0).
LoadOutcome(addr, b, lperm, slots) ==
  IF InLocals(addr, b) /\ Readable(lperm)
  THEN [ok |-> TRUE, v |-> IF IsSlot(addr, b) THEN slots[SlotOf(addr, b)] ELSE 0]
  ELSE [ok |-> FALSE, v |-> 0]

(***************************************************************************)
(* The snippet library (snippets.c, generated, not part of the sources):   *)
(* modelled from its contract.  A snippet call writes one fixed-length     *)
(* fragment, with its immediate patched in, at the write pointer and       *)
(* returns the advanced write pointer.                                     *)
(***************************************************************************)
SnippetLen(op) ==
  CASE op = "load_addr" -> 10 [] op = "load" -> 12 [] op = "const" -> 5
    [] op = "add" -> 3 [] op = "mul" -> 4 [] op = "assign_indirect" -> 3
    [] op = "ret" -> 1

\* <op>_<depth>_fallthrough(p, imm)
Snippet(op, depth, p, imm) ==
  [item |-> [at |-> p, len |-> SnippetLen(op), op |-> op, depth |-> depth, imm |-> imm],
   ret  |-> p + SnippetLen(op)]

\* the fragment that starts at address a: the last one written there
ItemAt(cd, a) ==
  LET S == {i \in 1..Len(cd) : cd[i].at = a}
  IN  IF S = {} THEN [at |-> a, len |-> 0, op |-> "none", depth |-> 0, imm |-> 0]
      ELSE cd[CHOOSE i \in S : \A j \in S : j <= i]

\* the state after a fault
Crash(st) == [st EXCEPT !.pc = "crashed"]

\* One fragment executed on the state st = [pc, ip, vm, locals, wild]: the
\* fragment for depth N keeps the N values below its operands, a load pushes
\* the int at its address, a constant pushes its literal, add and mul replace
\* the two top values by their sum and product, assign_indirect stores the
\* top value through the address beneath it, and control falls through to
\* the next fragment.
ExecOutcomes(it, st, b, cperm, lperm) ==
  LET next == [st EXCEPT !.ip = st.ip + it.len]
      n == Len(st.vm)
      below == SubSeq(st.vm, 1, it.depth)
  IN
  IF ~Executable(cperm) \/ ~InCode(st.ip, b) \/ it.op = "none" THEN {Crash(st)}
  ELSE IF it.op = "ret" THEN {[st EXCEPT !.pc = "read"]}
  ELSE IF it.op \in {"load_addr", "const"} THEN
    IF n = it.depth THEN {[next EXCEPT !.vm = Append(below, it.imm)]}
    ELSE {Crash(st)}
  ELSE IF it.op = "load" THEN
    LET r == LoadOutcome(it.imm, b, lperm, st.locals)
    IN  IF n = it.depth /\ r.ok THEN {[next EXCEPT !.vm = Append(below, r.v)]}
        ELSE {Crash(st)}
  ELSE IF it.op = "add" THEN
    IF n = it.depth + 2 THEN {[next EXCEPT !.vm = Append(below, st.vm[n - 1] + st.vm[n])]}
    ELSE {Crash(st)}
  ELSE IF it.op = "mul" THEN
    IF n = it.depth + 2 THEN {[next EXCEPT !.vm = Append(below, st.vm[n - 1] * st.vm[n])]}
    ELSE {Crash(st)}
  ELSE IF it.op = "assign_indirect" THEN
    IF n = it.depth + 2 THEN
      { IF o = "av" THEN Crash(st)
        ELSE IF o = "wild" THEN [next EXCEPT !.vm = below, !.wild = st.wild + 1]
        ELSE [next EXCEPT !.vm = below,
                          !.locals = [st.locals EXCEPT ![SlotOf(st.vm[n - 1], b)] = st.vm[n]]]
        : o \in StoreOutcomes(st.vm[n - 1], b, cperm, lperm) }
    ELSE {Crash(st)}
  ELSE {Crash(st)}

(***************************************************************************)
(* main: the snippet calls, in program order.                              *)
(***************************************************************************)
Call(op, depth, local, lit) == [op |-> op, depth |-> depth, local |-> local, lit |-> lit]

\* the calls with add_1 in place of mul_1 (call 12)
StitchCalls_AddForMul ==
  << Call("load_addr", 0, "a", 0),
     Call("load", 1, "b", 0),
     Call("load", 2, "c", 0),
     Call("add", 1, "", 0),
     Call("load", 2, "f", 0),
     Call("load", 3, "g", 0),
     Call("mul", 2, "", 0),
     Call("add", 1, "", 0),
     Call("load", 2, "d", 0),
     Call("const", 3, "", 3),
     Call("add", 2, "", 0),
     Call("add", 1, "", 0),
     Call("assign_indirect", 0, "", 0) >>

\* the calls with add_2 in place of add_1 (call 4)
StitchCalls_WrongDepth ==
  << Call("load_addr", 0, "a", 0),
     Call("load", 1, "b", 0),
     Call("load", 2, "c", 0),
     Call("add", 2, "", 0),
     Call("load", 2, "f", 0),
     Call("load", 3, "g", 0),
     Call("mul", 2, "", 0),
     Call("add", 1, "", 0),
     Call("load", 2, "d", 0),
     Call("const", 3, "", 3),
     Call("add", 2, "", 0),
     Call("mul", 1, "", 0),
     Call("assign_indirect", 0, "", 0) >>

\* the calls with the loads of f and g exchanged (calls 5 and 6)
StitchCalls_SwappedLoads ==
  << Call("load_addr", 0, "a", 0),
     Call("load", 1, "b", 0),
     Call("load", 2, "c", 0),
     Call("add", 1, "", 0),
     Call("load", 2, "g", 0),
     Call("load", 3, "f", 0),
     Call("mul", 2, "", 0),
     Call("add", 1, "", 0),
     Call("load", 2, "d", 0),
     Call("const", 3, "", 3),
     Call("add", 2, "", 0),
     Call("mul", 1, "", 0),
     Call("assign_indirect", 0, "", 0) >>

\* the calls with the address of d passed to const_3 as its literal (call 10)
StitchCalls_AddressAsLiteral ==
  << Call("load_addr", 0, "a", 0),
     Call("load", 1, "b", 0),
     Call("load", 2, "c", 0),
     Call("add", 1, "", 0),
     Call("load", 2, "f", 0),
     Call("load", 3, "g", 0),
     Call("mul", 2, "", 0),
     Call("add", 1, "", 0),
     Call("load", 2, "d", 0),
     Call("const", 3, "d", 0),
     Call("add", 2, "", 0),
     Call("mul", 1, "", 0),
     Call("assign_indirect", 0, "", 0) >>

StitchCalls ==
  << Call("load_addr", 0, "a", 0),
     Call("load", 1, "b", 0),
     Call("load", 2, "c", 0),
     Call("add", 1, "", 0),
     Call("load", 2, "f", 0),
     Call("load", 3, "g", 0),
     Call("mul", 2, "", 0),
     Call("add", 1, "", 0),
     Call("load", 2, "d", 0),
     Call("const", 3, "", 3),
     Call("add", 2, "", 0),
     Call("mul", 1, "", 0),
     Call("assign_indirect", 0, "", 0) >>

\* the immediate a call passes
Imm(c, b) == IF c.local # "" THEN BYTE_OFFSET_OF_LOCAL(c.local, b) ELSE c.lit

\* a write of len bytes at the write pointer p succeeds inside the writable
\* code region and faults elsewhere (with a NULL base p is in the first 64K,
\* which is never mapped)
CodeWriteOk(p, len, b, cperm) ==
  InCode(p, b) /\ InCode(p + len - 1, b) /\ Writable(cperm)

(***************************************************************************)
(* main, statement by statement.                                           *)
(***************************************************************************)
NoPrev == [completed |-> FALSE, base |-> 0, code |-> <<>>, a |-> 0]

InitMain ==
  /\ pc = "lex"
  /\ tokens = <<>>
  /\ nodes = <<>>
  /\ out = <<>>
  /\ base = 0
  /\ k = 1
  /\ locals = [s \in Slots |-> 0]
  /\ wild = 0
  /\ code = <<>>
  /\ code_p = 0
  /\ codePerm = "none"
  /\ localsPerm = "none"
  /\ failed = {}
  /\ invoked = 0
  /\ ip = 0
  /\ vm = <<>>
  /\ run = 1
  /\ prev = NoPrev

\* Token tokens[] = {...}
Lex ==
  /\ pc = "lex"
  /\ tokens' = TokensArray
  /\ pc' = "print_tokens"
  /\ UNCHANGED <<nodes, out, base, k, locals, wild, code, code_p, codePerm,
                 localsPerm, failed, invoked, ip, vm, run, prev, encVars>>

\* the loop printing the tokens
PrintTokens ==
  /\ pc = "print_tokens"
  /\ out' = out \o [i \in 1..Len(tokens) |-> TokenLine(tokens, i - 1)]
  /\ pc' = "parse"
  /\ UNCHANGED <<tokens, nodes, base, k, locals, wild, code, code_p, codePerm,
                 localsPerm, failed, invoked, ip, vm, run, prev, encVars>>

\* Ast nodes[] = {...}
Parse ==
  /\ pc = "parse"
  /\ nodes' = NodesArray
  /\ pc' = "print_ast"
  /\ UNCHANGED <<tokens, out, base, k, locals, wild, code, code_p, codePerm,
                 localsPerm, failed, invoked, ip, vm, run, prev, encVars>>

\* the loop printing the nodes
PrintAst ==
  /\ pc = "print_ast"
  /\ out' = out \o [i \in 1..Len(nodes) |-> AstLine(tokens, nodes, i - 1)]
  /\ pc' = "alloc"
  /\ UNCHANGED <<tokens, nodes, base, k, locals, wild, code, code_p, codePerm,
                 localsPerm, failed, invoked, ip, vm, run, prev, encVars>>

\* locals_and_code = VirtualAlloc(NULL, 128 << 10, MEM_RESERVE | MEM_COMMIT,
\* PAGE_EXECUTE_READWRITE); code_seg, locals and code_p are set from it.
\* The result is not tested.
Alloc ==
  /\ pc = "alloc"
  /\ \E r \in AllocResults :
       /\ base' = r
       /\ code_p' = CodeSeg(r)
       /\ codePerm' = IF r = 0 THEN "none" ELSE "RWX"
       /\ localsPerm' = IF r = 0 THEN "none" ELSE "RWX"
       /\ failed' = IF r = 0 THEN failed \cup {"alloc"} ELSE failed
  /\ pc' = "init_locals"
  /\ k' = 1
  /\ UNCHANGED <<tokens, nodes, out, locals, wild, code, invoked, ip, vm, run, prev, encVars>>

\* *(int*)BYTE_OFFSET_OF_LOCAL(name) = value, the k-th of the seven stores
InitLocal ==
  /\ pc = "init_locals"
  /\ LET addr == BYTE_OFFSET_OF_LOCAL(LocalInits[k][1], base)
         v == LocalInits[k][2]
     IN  \E o \in StoreOutcomes(addr, base, codePerm, localsPerm) :
           /\ locals' = IF o = "slot" THEN [locals EXCEPT ![SlotOf(addr, base)] = v]
                        ELSE locals
           /\ wild' = IF o = "wild" THEN wild + 1 ELSE wild
           /\ pc' = IF o = "av" THEN "crashed"
                    ELSE IF k < Len(LocalInits) THEN "init_locals" ELSE "stitch"
           /\ k' = IF o = "av" THEN k ELSE IF k < Len(LocalInits) THEN k + 1 ELSE 1
  /\ UNCHANGED <<tokens, nodes, out, base, code, code_p, codePerm, localsPerm,
                 failed, invoked, ip, vm, run, prev, encVars>>

\* code_p = <op>_<depth>_fallthrough(code_p, imm), the k-th of the calls
Stitch ==
  /\ pc = "stitch"
  /\ LET c == StitchCalls[k]
         r == Snippet(c.op, c.depth, code_p, Imm(c, base))
         ok == CodeWriteOk(code_p, r.item.len, base, codePerm)
     IN  /\ code' = IF ok THEN Append(code, r.item) ELSE code
         /\ code_p' = IF ok THEN r.ret ELSE code_p
         /\ pc' = IF ~ok THEN "crashed"
                  ELSE IF k < Len(StitchCalls) THEN "stitch" ELSE "ret"
         /\ k' = IF ~ok THEN k ELSE IF k < Len(StitchCalls) THEN k + 1 ELSE 1
  /\ UNCHANGED <<tokens, nodes, out, base, locals, wild, codePerm, localsPerm,
                 failed, invoked, ip, vm, run, prev, encVars>>

\* *code_p++ = 0xc3
AppendRet ==
  /\ pc = "ret"
  /\ LET r == Snippet("ret", 0, code_p, 0)
         ok == CodeWriteOk(code_p, r.item.len, base, codePerm)
     IN  /\ code' = IF ok THEN Append(code, r.item) ELSE code
         /\ code_p' = IF ok THEN r.ret ELSE code_p
         /\ pc' = IF ok THEN "print_size" ELSE "crashed"
  /\ UNCHANGED <<tokens, nodes, out, base, k, locals, wild, codePerm, localsPerm,
                 failed, invoked, ip, vm, run, prev, encVars>>

\* printf("Generated %zu bytes of code, executing.", code_p - code_seg)
PrintSize ==
  /\ pc = "print_size"
  /\ out' = Append(out, [generated |-> code_p - CodeSeg(base)])
  /\ pc' = "protect_code"
  /\ UNCHANGED <<tokens, nodes, base, k, locals, wild, code, code_p, codePerm,
                 localsPerm, failed, invoked, ip, vm, run, prev, encVars>>

\* VirtualProtect(code_seg, 64 << 10, PAGE_EXECUTE_READ, &old_protect): the
\* service changes the protection or fails; the result is not tested
ProtectCode ==
  /\ pc = "protect_code"
  /\ \E ok \in BOOLEAN :
       /\ codePerm' = IF ok THEN "RX" ELSE codePerm
       /\ failed' = IF ok THEN failed ELSE failed \cup {"protect_code"}
  /\ pc' = "protect_locals"
  /\ UNCHANGED <<tokens, nodes, out, base, k, locals, wild, code, code_p,
                 localsPerm, invoked, ip, vm, run, prev, encVars>>

\* VirtualProtect(locals, 64 << 10, PAGE_READWRITE, &old_protect)
ProtectLocals ==
  /\ pc = "protect_locals"
  /\ \E ok \in BOOLEAN :
       /\ localsPerm' = IF ok THEN "RW" ELSE localsPerm
       /\ failed' = IF ok THEN failed ELSE failed \cup {"protect_locals"}
  /\ pc' = "call"
  /\ UNCHANGED <<tokens, nodes, out, base, k, locals, wild, code, code_p,
                 codePerm, invoked, ip, vm, run, prev, encVars>>

\* ((void (*)())code_seg)(): control enters the code region
Invoke ==
  /\ pc = "call"
  /\ invoked' = invoked + 1
  /\ ip' = CodeSeg(base)
  /\ vm' = <<>>
  /\ pc' = "exec"
  /\ UNCHANGED <<tokens, nodes, out, base, k, locals, wild, code, code_p,
                 codePerm, localsPerm, failed, run, prev, encVars>>

\* the generated code runs one fragment; the ret fragment returns to main
ExecStep ==
  /\ pc = "exec"
  /\ \E o \in ExecOutcomes(ItemAt(code, ip),
                           [pc |-> pc, ip |-> ip, vm |-> vm, locals |-> locals, wild |-> wild],
                           base, codePerm, localsPerm) :
       /\ pc' = o.pc
       /\ ip' = o.ip
       /\ vm' = o.vm
       /\ locals' = o.locals
       /\ wild' = o.wild
  /\ UNCHANGED <<tokens, nodes, out, base, k, code, code_p, codePerm, localsPerm,
                 failed, invoked, run, prev, encVars>>

\* printf("Final value of 'a': %d", locals[0])
ReadResult ==
  /\ pc = "read"
  /\ out' = Append(out, [final |-> locals[0]])
  /\ pc' = "done"
  /\ UNCHANGED <<tokens, nodes, base, k, locals, wild, code, code_p, codePerm,
                 localsPerm, failed, invoked, ip, vm, run, prev, encVars>>

\* the program is run again: a new process, which keeps nothing of the last
\* one; prev records what that run produced
Rerun ==
  /\ pc \in {"done", "crashed"}
  /\ run < MaxRuns
  /\ prev' = [completed |-> pc = "done", base |-> base, code |-> code, a |-> locals[0]]
  /\ run' = run + 1
  /\ pc' = "lex"
  /\ tokens' = <<>>
  /\ nodes' = <<>>
  /\ out' = <<>>
  /\ base' = 0
  /\ k' = 1
  /\ locals' = [s \in Slots |-> 0]
  /\ wild' = 0
  /\ code' = <<>>
  /\ code_p' = 0
  /\ codePerm' = "none"
  /\ localsPerm' = "none"
  /\ failed' = {}
  /\ invoked' = 0
  /\ ip' = 0
  /\ vm' = <<>>
  /\ UNCHANGED encVars

(***************************************************************************)
(* The constructors and decoders applied to inputs from bounded sets.      *)
(***************************************************************************)
\* values around the boundary of a w-bit field, and small ones
FieldValues(w) ==
  {BitsOf(n) : n \in 0..MaxSmall}
    \cup {Mask(w - 1), {w - 1}, Mask(w), {w}, {0, w}}

AstKinds == AST_INVALID..(AST_Count - 1)

EncInputs ==
  [shape : {"UNARYOP", "UNARYOP_LVAL"}, kind : AstKinds, name : {""}, val : FieldValues(24)]
    \cup [shape : {"BINOP"}, kind : AstKinds, name : {""}, val : FieldValues(12)]
    \cup [shape : {"VAR"}, kind : {TK_IDENT}, name : Names, val : {{}}]
    \cup [shape : {"CONST"}, kind : {TK_CONST}, name : {""},
          val : FieldValues(56) \cup {Mask(31), {31}}]

NoInput == [shape |-> "", kind |-> 0, name |-> "", val |-> {}]
NoDecoded == [kind |-> 0, lval |-> FALSE, index |-> {}, displ |-> {}, payload |-> {}]

\* the macros are expressions: they yield a value for every argument and have
\* no way to report a failure
Construct(in) ==
  [failed |-> FALSE,
   value |-> CASE in.shape = "UNARYOP" -> UNARYOP(in.kind, in.val)
               [] in.shape = "UNARYOP_LVAL" -> UNARYOP_LVAL(in.kind, in.val)
               [] in.shape = "BINOP" -> BINOP(in.kind, in.val)
               [] in.shape = "VAR" -> VAR(in.name)
               [] in.shape = "CONST" -> CONST(in.val)]

\* the fields main's print loops read from a packed value
Decoded(in, packed) ==
  IF in.shape \in {"VAR", "CONST"}
  THEN [NoDecoded EXCEPT !.kind = TokenKindOf(packed), !.payload = TokenPayload(packed)]
  ELSE [NoDecoded EXCEPT !.kind = AstKindOf(packed), !.lval = AstLval(packed),
                         !.index = AstIndex(packed), !.displ = AstDispl(packed)]

InitEncOff ==
  /\ ein = NoInput
  /\ enc = [failed |-> FALSE, value |-> {}]
  /\ dec = NoDecoded
  /\ estage = "off"

Encode ==
  /\ estage = "in"
  /\ enc' = Construct(ein)
  /\ estage' = "packed"
  /\ UNCHANGED <<ein, dec, mainVars>>

Decode ==
  /\ estage = "packed"
  /\ dec' = Decoded(ein, enc.value)
  /\ estage' = "decoded"
  /\ UNCHANGED <<ein, enc, mainVars>>

(***************************************************************************)
(* Specifications.                                                         *)
(***************************************************************************)
Init == InitMain /\ InitEncOff

Next ==
  \/ Lex \/ PrintTokens \/ Parse \/ PrintAst \/ Alloc \/ InitLocal \/ Stitch
  \/ AppendRet \/ PrintSize \/ ProtectCode \/ ProtectLocals \/ Invoke
  \/ ExecStep \/ ReadResult \/ Rerun

\* runs of main
Spec == Init /\ [][Next]_vars

InitEnc ==
  /\ InitMain
  /\ ein \in EncInputs
  /\ enc = [failed |-> FALSE, value |-> {}]
  /\ dec = NoDecoded
  /\ estage = "in"

NextEnc == Encode \/ Decode

\* the constructors and decoders on every input of EncInputs
SpecEnc == InitEnc /\ [][NextEnc]_vars

(***************************************************************************)
(* Helpers of the properties.                                              *)
(***************************************************************************)
\* the slot of a name, through the address main computes for it
SlotOfName(c, b) == SlotOf(BYTE_OFFSET_OF_LOCAL(c, b), b)
\* the invocation has returned to main
Returned == pc \in {"read", "done"}
\* the emitted bytes: the fragments with their patched immediates, in address
\* order (fragments are position independent: their address is not in them)
Bytes(cd) == [i \in 1..Len(cd) |-> <<cd[i].op, cd[i].depth, cd[i].imm>>]
\* the emitted bytes with every address immediate taken relative to locals
Relocated(cd, b) ==
  [i \in 1..Len(cd) |->
     <<cd[i].op, cd[i].depth,
       IF cd[i].op \in {"load", "load_addr"} THEN cd[i].imm - LocalsPtr(b) ELSE cd[i].imm>>]

IsLeafKind(kd) == kd \in {AST_NAME, AST_CONST}
IsBinaryKind(kd) == kd \in {AST_ASSIGN, AST_ADD, AST_MUL}

\* the change of the virtual stack depth a node makes
Delta(kd) ==
  IF IsLeafKind(kd) THEN 1 ELSE IF kd = AST_ASSIGN THEN -2 ELSE IF IsBinaryKind(kd) THEN -1 ELSE 0

RECURSIVE VDepth(_, _)
\* the depth of the virtual stack after the first i nodes
VDepth(nds, i) == IF i = 0 THEN 0 ELSE VDepth(nds, i - 1) + Delta(AstKindOf(nds[i]))

\* the live values below the result of node i (position i of the sequence)
LiveBelow(nds, i) ==
  IF IsLeafKind(AstKindOf(nds[i])) THEN VDepth(nds, i - 1) ELSE VDepth(nds, i - 1) - 2

\* the snippet operation a node decodes to
OpOfNode(n) ==
  LET kd == AstKindOf(n)
  IN  CASE kd = AST_NAME -> (IF AstLval(n) THEN "load_addr" ELSE "load")
        [] kd = AST_CONST -> "const"
        [] kd = AST_ADD -> "add"
        [] kd = AST_MUL -> "mul"
        [] kd = AST_ASSIGN -> "assign_indirect"
        [] OTHER -> "none"

NameOfCode(n) == CHOOSE c \in Names : CharCode(c) = n

\* the immediate of a leaf, resolved through its token index
ImmOfNode(toks, n, b) ==
  LET kd == AstKindOf(n)
      t == toks[NatOf(AstIndex(n)) + 1]
  IN  IF kd = AST_NAME THEN BYTE_OFFSET_OF_LOCAL(NameOfCode(NatOf(TokenPayload(t))), b)
      ELSE IF kd = AST_CONST THEN NatOf(TokenPayload(t))
      ELSE 0

\* the snippet fragments written so far (all but the final ret byte)
Fragments(cd) == SelectSeq(cd, LAMBDA it : it.op # "ret")

(***************************************************************************)
(* C1.  When the invocation has returned, the slot of 'a' holds 329, the   *)
(* value of (b + c + f * g) * (d + 3) for b=2, c=3, d=4, f=6, g=7.         *)
(***************************************************************************)
C1_EndToEnd == Returned => locals[SlotOfName("a", base)] = 329

C1_Witness == pc = "done" /\ invoked = 1 /\ locals[0] = 329 /\ failed = {}

(***************************************************************************)
(* C7.  Over nodes in postorder the virtual stack never underflows and is  *)
(* empty after the final ASSIGN, and the depth suffix of the i-th snippet  *)
(* main calls is the number of live values below the result of node i.     *)
(***************************************************************************)
C7_DepthDispatch ==
  /\ \A i \in 1..Len(nodes) :
       /\ VDepth(nodes, i) >= 0
       /\ LiveBelow(nodes, i) >= 0
  /\ nodes # <<>> => VDepth(nodes, Len(nodes)) = 0
  /\ pc = "stitch" =>
       /\ k <= Len(nodes)
       /\ StitchCalls[k].depth = LiveBelow(nodes, k)
  /\ \A i \in 1..Len(Fragments(code)) :
       /\ i <= Len(nodes)
       /\ Fragments(code)[i].depth = LiveBelow(nodes, i)

C7_Witness ==
  /\ pc = "ret"
  /\ Len(Fragments(code)) = Len(nodes)
  /\ Fragments(code)[7].op = "mul" /\ Fragments(code)[7].depth = 2

(***************************************************************************)
(* C8.  main calls one snippet per node, in array order; the i-th call is  *)
(* the operation node i decodes to, a leaf's immediate is the one resolved *)
(* through the node's token index, and each call gets as write pointer the *)
(* value the previous call returned (the first one gets code_seg).         *)
(***************************************************************************)
C8_StitchFollowsAst ==
  LET fr == Fragments(code)
  IN  /\ pc = "stitch" =>
           /\ k <= Len(nodes)
           /\ StitchCalls[k].op = OpOfNode(nodes[k])
           /\ code_p = IF k = 1 THEN CodeSeg(base) ELSE fr[k - 1].at + fr[k - 1].len
           /\ base # 0 => Len(fr) = k - 1
      /\ pc \in {"ret", "print_size", "protect_code", "protect_locals", "call", "exec",
                 "read", "done"} => Len(fr) = Len(nodes)
      /\ \A i \in 1..Len(fr) :
           /\ i <= Len(nodes)
           /\ fr[i].op = OpOfNode(nodes[i])
           /\ IsLeafKind(AstKindOf(nodes[i])) => fr[i].imm = ImmOfNode(tokens, nodes[i], base)
           /\ fr[i].at = IF i = 1 THEN CodeSeg(base)
                         ELSE Snippet(fr[i - 1].op, fr[i - 1].depth, fr[i - 1].at, fr[i - 1].imm).ret

C8_Witness ==
  /\ pc = "ret"
  /\ Len(Fragments(code)) = Len(nodes)
  /\ Fragments(code)[10].op = "const" /\ Fragments(code)[10].imm = 3
  /\ Fragments(code)[6].imm = BYTE_OFFSET_OF_LOCAL("g", base)

(***************************************************************************)
(* C9.  The node array is well formed postorder: a binary node at C index  *)
(* i with displacement d has its right operand rooted at i-1 and its left  *)
(* operand rooted at i-d, 2 <= d <= i, the right subtree occupies exactly  *)
(* i-d+1..i-1, the two subtrees are contiguous and disjoint, and the whole *)
(* array lists the tree of a = (b + c + f * g) * (d + 3), ASSIGN last.     *)
(* (Positions below are C indices plus one.)                               *)
(***************************************************************************)
DisplOf(nds, p) == NatOf(AstDispl(nds[p]))

RECURSIVE SubtreeStart(_, _)
\* the first position of the subtree rooted at position p (0: ill formed)
SubtreeStart(nds, p) ==
  IF ~IsBinaryKind(AstKindOf(nds[p])) THEN p
  ELSE IF DisplOf(nds, p) < 1 \/ DisplOf(nds, p) >= p THEN 0
  ELSE SubtreeStart(nds, p - DisplOf(nds, p))

RECURSIVE TreeAt(_, _, _)
\* the tree rooted at position p
TreeAt(toks, nds, p) ==
  LET kd == AstKindOf(nds[p])
  IN  IF kd = AST_NAME
        THEN <<NameOfCode(NatOf(TokenPayload(toks[NatOf(AstIndex(nds[p])) + 1])))>>
      ELSE IF kd = AST_CONST
        THEN <<NatOf(TokenPayload(toks[NatOf(AstIndex(nds[p])) + 1]))>>
      ELSE IF DisplOf(nds, p) < 1 \/ DisplOf(nds, p) >= p THEN <<>>
      ELSE <<ast_names[kd + 1], TreeAt(toks, nds, p - DisplOf(nds, p)),
             TreeAt(toks, nds, p - 1)>>

\* a = (b + c + f * g) * (d + 3)
ExpressionTree ==
  <<"ASSIGN", <<"a">>,
    <<"MUL",
      <<"ADD", <<"ADD", <<"b">>, <<"c">> >>, <<"MUL", <<"f">>, <<"g">> >> >>,
      <<"ADD", <<"d">>, <<3>> >> >> >>

C9_PostorderWellFormed ==
  nodes # <<>> =>
    /\ \A p \in 1..Len(nodes) :
         IsBinaryKind(AstKindOf(nodes[p])) =>
           LET d == DisplOf(nodes, p)
           IN  /\ 2 <= d /\ d <= p - 1
               /\ SubtreeStart(nodes, p - 1) = p - d + 1
               /\ SubtreeStart(nodes, p - d) >= 1
               /\ SubtreeStart(nodes, p - d) <= p - d
    /\ AstKindOf(nodes[Len(nodes)]) = AST_ASSIGN
    /\ SubtreeStart(nodes, Len(nodes)) = 1
    /\ TreeAt(tokens, nodes, Len(nodes)) = ExpressionTree

C9_Witness ==
  /\ pc = "print_ast"
  /\ Len(nodes) = 13
  /\ DisplOf(nodes, 13) = 12
  /\ SubtreeStart(nodes, 12) = 2

(***************************************************************************)
(* C10.  Distinct names have distinct slots; the invocation of the         *)
(* generated code writes no slot but that of 'a' (and no other memory);    *)
(* after it b, c, d, e, f, g hold the values they were initialised with.   *)
(***************************************************************************)
C10_Frame ==
  /\ [](\A c1, c2 \in Names :
          c1 # c2 => SlotOfName(c1, base) # SlotOfName(c2, base))
  /\ [][pc = "exec" =>
          /\ \A c \in Names \ {"a"} :
               locals'[SlotOfName(c, base)] = locals[SlotOfName(c, base)]
          /\ wild' = wild]_vars
  /\ [](Returned =>
          \A j \in 2..Len(LocalInits) :
            locals[SlotOfName(LocalInits[j][1], base)] = LocalInits[j][2])

C10_Witness ==
  /\ pc = "read"
  /\ locals = [s \in Slots |-> CASE s = 0 -> 329 [] s = 1 -> 2 [] s = 2 -> 3
                                 [] s = 3 -> 4 [] s = 4 -> 0 [] s = 5 -> 6 [] s = 6 -> 7]

(***************************************************************************)
(* C6.  As claimed: two completed runs emit identical code bytes, patched  *)
(* immediates included, and leave the identical value of 'a', whatever     *)
(* base the memory service returns in each run.                            *)
(***************************************************************************)
C6_Original ==
  (prev.completed /\ Returned) =>
    /\ Bytes(code) = Bytes(prev.code)
    /\ locals[SlotOfName("a", base)] = prev.a

(***************************************************************************)
(* C6 as amended.  Two completed runs leave the identical value of 'a' and *)
(* emit the identical sequence of fragments with identical literals; the   *)
(* address immediates of load and load_addr are identical relative to the  *)
(* locals region, so the bytes are identical when both runs get the same   *)
(* base and differ in every address immediate when they do not.            *)
(***************************************************************************)
C6_Amended ==
  (prev.completed /\ Returned) =>
    /\ locals[SlotOfName("a", base)] = prev.a
    /\ Relocated(code, base) = Relocated(prev.code, prev.base)
    /\ base = prev.base => Bytes(code) = Bytes(prev.code)
    /\ base # prev.base =>
         \A i \in 1..Len(code) :
           code[i].op \in {"load", "load_addr"} => code[i].imm # prev.code[i].imm

C6_Witness ==
  /\ prev.completed
  /\ pc = "done"
  /\ base # prev.base
  /\ locals[0] = prev.a
  /\ Bytes(code) # Bytes(prev.code)

(***************************************************************************)
(* C2.  Lifecycle ordering, in every execution of main: every code byte,   *)
(* the final ret included, is written before the code region is downgraded *)
(* to execute+read; the downgrade precedes the invocation; the region is   *)
(* invoked exactly once; no byte is written after the downgrade; the       *)
(* result slot is read only after the invocation has returned.             *)
(***************************************************************************)
CodeComplete ==
  /\ Len(code) = Len(StitchCalls) + 1
  /\ code[Len(code)].op = "ret"

Ended == pc \in {"done", "crashed"}

C2_Lifecycle ==
  /\ [](codePerm = "RX" => CodeComplete)
  /\ [](invoked > 0 => (codePerm = "RX" /\ CodeComplete))
  /\ [](invoked <= 1)
  /\ [](pc = "done" => invoked = 1)
  /\ [][(codePerm = "RX" /\ run' = run) => code' = code]_vars
  /\ [][(run' = run /\ Len(out') > Len(out) /\ "final" \in DOMAIN out'[Len(out')])
          => (pc = "read" /\ invoked = 1)]_vars

\* the same ordering along the runs in which no memory-service call fails
C2_OrderWhenServiceSucceeds ==
  /\ [](failed = {} =>
          /\ codePerm = "RX" => CodeComplete
          /\ invoked > 0 => (codePerm = "RX" /\ CodeComplete)
          /\ invoked <= 1
          /\ pc = "done" => invoked = 1)
  /\ [][(codePerm = "RX" /\ run' = run) => code' = code]_vars
  /\ [][(run' = run /\ Len(out') > Len(out) /\ "final" \in DOMAIN out'[Len(out')])
          => (pc = "read" /\ invoked = 1)]_vars

(***************************************************************************)
(* C5.  If VirtualAlloc or either VirtualProtect fails, main ends with an  *)
(* explicit error outcome and from then on stores into no local slot,      *)
(* emits no snippet and does not invoke the code region.                   *)
(***************************************************************************)
C5_FailureHandled ==
  /\ []((failed # {} /\ Ended) => pc = "error")
  /\ [][(failed # {} /\ run' = run) =>
          /\ locals' = locals
          /\ wild' = wild
          /\ code' = code
          /\ invoked' = invoked
          /\ pc' \notin {"init_locals", "stitch", "exec"}]_vars

(***************************************************************************)
(* C3.  Round trip: a leaf built by UNARYOP / UNARYOP_LVAL with an index   *)
(* in 0..2^24-1 decodes to its kind, flag and index; a node built by BINOP *)
(* with a displacement in 0..4095 decodes to its kind and displacement; a  *)
(* token built by VAR or CONST with a payload that fits the 56 payload     *)
(* bits decodes to its kind and payload.                                   *)
(***************************************************************************)
\* an int equal to the natural whose bits are V
IntEqualsNat(S, V) == IntIsNat(S) /\ S = V

LeafRoundTrip ==
  (ein.shape \in {"UNARYOP", "UNARYOP_LVAL"} /\ ein.val \subseteq Mask(24)) =>
    /\ dec.kind = ein.kind
    /\ dec.lval = (ein.shape = "UNARYOP_LVAL")
    /\ IntEqualsNat(dec.index, ein.val)

BinopRoundTrip ==
  (ein.shape = "BINOP" /\ ein.val \subseteq Mask(12)) =>
    /\ dec.kind = ein.kind
    /\ dec.displ = ein.val

TokenRoundTrip ==
  /\ ein.shape = "VAR" =>
       /\ dec.kind = TK_IDENT
       /\ IntEqualsNat(dec.payload, BitsOf(CharCode(ein.name)))
  /\ (ein.shape = "CONST" /\ ein.val \subseteq Mask(56)) =>
       /\ dec.kind = TK_CONST
       /\ IntEqualsNat(dec.payload, ein.val)

C3_RoundTrip ==
  estage = "decoded" => (LeafRoundTrip /\ BinopRoundTrip /\ TokenRoundTrip)

\* what does hold: leaf indices below 2^23, every displacement, payloads below 2^31
C3_RoundTripNarrow ==
  estage = "decoded" =>
    /\ (ein.shape \in {"UNARYOP", "UNARYOP_LVAL"} /\ ein.val \subseteq Mask(23)) =>
         /\ dec.kind = ein.kind
         /\ dec.lval = (ein.shape = "UNARYOP_LVAL")
         /\ IntEqualsNat(dec.index, ein.val)
    /\ BinopRoundTrip
    /\ ein.shape = "VAR" =>
         /\ dec.kind = TK_IDENT
         /\ IntEqualsNat(dec.payload, BitsOf(CharCode(ein.name)))
    /\ (ein.shape = "CONST" /\ ein.val \subseteq Mask(31)) =>
         /\ dec.kind = TK_CONST
         /\ IntEqualsNat(dec.payload, ein.val)

(***************************************************************************)
(* C4.  Overflow boundary: a leaf index, a displacement or a constant      *)
(* payload up to the largest value of its field (2^24-1, 2^12-1, 2^56-1)   *)
(* is encoded without failure and stored exactly; a value beyond it makes  *)
(* the encoding fail instead of being truncated.                           *)
(***************************************************************************)
FieldWidth(shape) ==
  CASE shape \in {"UNARYOP", "UNARYOP_LVAL"} -> 24
    [] shape = "BINOP" -> 12
    [] shape = "CONST" -> 56
    [] OTHER -> 0

\* the bits of the packed value that hold the field
FieldOf(shape, packed) ==
  IF shape = "BINOP" THEN ShiftR(packed, 20) ELSE ShiftR(packed, 8)

C4_OverflowBoundary ==
  (estage \in {"packed", "decoded"} /\ ein.shape \in {"UNARYOP", "UNARYOP_LVAL", "BINOP", "CONST"}) =>
    IF ein.val \subseteq Mask(FieldWidth(ein.shape))
    THEN ~enc.failed /\ FieldOf(ein.shape, enc.value) = ein.val
    ELSE enc.failed

\* what does hold: values that fit are stored exactly, values beyond the
\* field are stored without their high bits and no failure is reported
C4_SilentTruncation ==
  (estage \in {"packed", "decoded"} /\ ein.shape \in {"UNARYOP", "UNARYOP_LVAL", "BINOP", "CONST"}) =>
    /\ ~enc.failed
    /\ FieldOf(ein.shape, enc.value) = ein.val \cap Mask(FieldWidth(ein.shape))

====
